---- MODULE Spec2Model ----
(***************************************************************************)
(* Model of handle_call_tool of src/src/applescript_mcp/server.py: the     *)
(* handler that stages an AppleScript into a temporary file, runs          *)
(* /usr/bin/osascript on it under a timeout and answers with one text      *)
(* block.  The handler is a coroutine without a suspension point, so the   *)
(* event loop runs one call at a time; the file system, the interpreter    *)
(* process and the clock are the environment.                              *)
(*                                                                         *)
(* Text is a sequence of code points, a byte string a sequence of bytes.   *)
(***************************************************************************)
EXTENDS Integers, Sequences, FiniteSets, TLC

\* ------------------------------------------------------------------ bounds
MaxPending == 1      \* requests issued and not yet started
NumNames == 2        \* names the temporary directory can hold
MaxTimeout == 1      \* largest positive timeout a request gives
MaxClock == 2        \* seconds the clock is followed when no timeout bounds the wait

\* ------------------------------------------------------- program constants
DefaultTimeout == 60

ExecuteTool == "applescript_execute"
ToolNames == {ExecuteTool, "other_tool"}

\* ---------------------------------------------------------------- values
\* scripts: the empty one, "a", "a" and e-acute (two bytes in UTF-8), a lone surrogate
Scripts == {<<>>, <<97>>, <<97, 233>>, <<55296>>}
NoScript == <<-1>>

\* what the interpreter may write to a stream: "a", "a" CR LF CR, a byte that
\* is no UTF-8
OutStreams == {<<97>>, <<97, 13, 10, 13>>, <<255>>}

\* a timeout argument: absent, JSON null, an integer, or a string
AbsentTimeout == [kind |-> "absent", val |-> 0]
NullTimeout == [kind |-> "null", val |-> 0]
StrTimeout == [kind |-> "str", val |-> 0]
IntTimeout(n) == [kind |-> "int", val |-> n]
Timeouts == {AbsentTimeout, NullTimeout, StrTimeout} \cup {IntTimeout(n) : n \in -1..MaxTimeout}

\* arguments: None (present = FALSE) or a dict that may hold code_snippet and timeout
NoArguments == [present |-> FALSE, code_snippet |-> NoScript, timeout |-> AbsentTimeout]
Arguments == {NoArguments} \cup
    [present : {TRUE}, code_snippet : Scripts \cup {NoScript}, timeout : Timeouts]

Names == 1..NumNames
NoPath == 0
NoFile == <<-1>>
NotRead == <<-2>>

\* what keeps the interpreter from starting: the binary is missing, or may not be run
LaunchErrors == {"FileNotFoundError", "PermissionError"}
NoError == "none"

NoProc == [state |-> "none", path |-> NoPath, input |-> NotRead,
           returncode |-> 0, stdout |-> <<>>, stderr |-> <<>>]

VARIABLES
    pending,        \* requests issued by the caller whose handler has not started
    fs,             \* the temporary directory: name -> content, or NoFile
    pc,             \* position of the handler call in progress ("idle": none yet)
    name,           \* its parameter name
    arguments,      \* its parameter arguments
    timeout,        \* its local timeout
    temp_path,      \* its local temp_path (NoPath before staging)
    dirty,          \* temp holds buffered bytes that a failed flush left behind
    unlinked,       \* outcome of its os.unlink call: "none", "ok" or "failed"
    launch_error,   \* the error that kept subprocess.run from starting a process
    proc,           \* the interpreter process of this call
    elapsed,        \* seconds the process has been running (0 once it has exited)
    ret             \* the value the call returns (<<>> while there is none)

vars == <<pending, fs, pc, name, arguments, timeout, temp_path, dirty, unlinked,
          launch_error, proc, elapsed, ret>>

\* ------------------------------------------------------------ conversions
RECURSIVE EncodeUtf8(_)
\* str.encode('utf-8'): the bytes of a text, <<-1>> when a code point cannot be encoded
EncodeUtf8(s) ==
    IF s = <<>> THEN <<>>
    ELSE LET c == Head(s)
             rest == EncodeUtf8(Tail(s))
             one == IF c < 128 THEN <<c>>
                    ELSE IF c < 2048 THEN <<192 + (c \div 64), 128 + (c % 64)>>
                    ELSE IF c >= 55296 /\ c <= 57343 THEN <<-1>>
                    ELSE <<224 + (c \div 4096), 128 + ((c \div 64) % 64), 128 + (c % 64)>>
         IN IF one = <<-1>> \/ rest = <<-1>> THEN <<-1>> ELSE one \o rest

RECURSIVE DecodeUtf8(_)
\* bytes.decode(encoding, 'strict') under a UTF-8 locale: the text of a byte string of
\* one- to three-byte sequences, <<-1>> when it is malformed
DecodeUtf8(b) ==
    IF b = <<>> THEN <<>>
    ELSE IF b[1] < 128
         THEN LET rest == DecodeUtf8(Tail(b))
              IN IF rest = <<-1>> THEN <<-1>> ELSE <<b[1]>> \o rest
    ELSE IF b[1] >= 194 /\ b[1] <= 223 /\ Len(b) >= 2 /\ b[2] >= 128 /\ b[2] <= 191
         THEN LET rest == DecodeUtf8(Tail(Tail(b)))
              IN IF rest = <<-1>> THEN <<-1>>
                 ELSE <<(b[1] - 192) * 64 + (b[2] - 128)>> \o rest
    ELSE IF b[1] >= 224 /\ b[1] <= 239 /\ Len(b) >= 3
            /\ b[2] >= 128 /\ b[2] <= 191 /\ b[3] >= 128 /\ b[3] <= 191
         THEN LET c == (b[1] - 224) * 4096 + (b[2] - 128) * 64 + (b[3] - 128)
                  rest == DecodeUtf8(Tail(Tail(Tail(b))))
              IN IF c < 2048 \/ (c >= 55296 /\ c <= 57343) \/ rest = <<-1>> THEN <<-1>>
                 ELSE <<c>> \o rest
    ELSE <<-1>>

RECURSIVE TranslateNewlines(_)
\* data.replace("\r\n", "\n").replace("\r", "\n")
TranslateNewlines(t) ==
    IF t = <<>> THEN <<>>
    ELSE IF t[1] = 13 /\ Len(t) >= 2 /\ t[2] = 10 THEN <<10>> \o TranslateNewlines(Tail(Tail(t)))
    ELSE IF t[1] = 13 THEN <<10>> \o TranslateNewlines(Tail(t))
    ELSE <<t[1]>> \o TranslateNewlines(Tail(t))

\* text=True: what subprocess.run hands back for a captured stream
TextMode(b) ==
    IF DecodeUtf8(b) = <<-1>> THEN <<-1>> ELSE TranslateNewlines(DecodeUtf8(b))

\* -------------------------------------------------------------- responses
TextContent(text) == [type |-> "text", text |-> text]

Text(pfx, body, msg, tmo) == [pfx |-> pfx, body |-> body, msg |-> msg, tmo |-> tmo]

\* the exception leaves the handler instead of becoming a response
ErrorResponse_Raise(e) == <<[type |-> "exception", text |-> Text("", <<>>, e, AbsentTimeout)]>>

\* line 229: f"Error: {str(e)}"
ErrorResponse(e) == <<TextContent(Text("Error: ", <<>>, e, AbsentTimeout))>>

\* the message of the exception is left out
ExecErrorResponse_NoDetail(e) ==
    <<TextContent(Text("Error executing AppleScript: ", <<>>, <<>>, AbsentTimeout))>>

\* line 218: f"Error executing AppleScript: {str(e)}"
ExecErrorResponse(e) ==
    <<TextContent(Text("Error executing AppleScript: ", <<>>, e, AbsentTimeout))>>

\* line 216: f"AppleScript execution timed out after {timeout} seconds"
TimedOutResponse(t) ==
    <<TextContent(Text("AppleScript execution timed out after ", <<>>, <<" seconds">>, t))>>

\* lines 210-214: the result of a finished run
Classify(result) ==
    IF result.returncode # 0
    THEN <<TextContent(Text("AppleScript execution failed: ", result.stderr, <<>>, AbsentTimeout))>>
    ELSE <<TextContent(Text("", result.stdout, <<>>, AbsentTimeout))>>

\* ------------------------------------------------------------- validation
\* every tool name is taken for the execute tool
IsExecute_Any(n) == n \in ToolNames

\* line 186: name == "applescript_execute"
IsExecute(n) == n = ExecuteTool

\* only "not arguments" is tested
MissingScript_NotArguments(a) ==
    \/ ~a.present
    \/ (a.code_snippet = NoScript /\ a.timeout = AbsentTimeout)

\* line 187: not arguments or "code_snippet" not in arguments
MissingScript(a) ==
    \/ ~a.present
    \/ (a.code_snippet = NoScript /\ a.timeout = AbsentTimeout)
    \/ a.code_snippet = NoScript

\* the default is the timeout the call before this one ran under
GetTimeout_Sticky(a) ==
    IF a.timeout.kind # "absent" THEN a.timeout
    ELSE IF timeout.kind = "absent" THEN IntTimeout(DefaultTimeout) ELSE timeout

\* line 191: arguments.get("timeout", 60)
GetTimeout(a) ==
    IF a.timeout.kind = "absent" THEN IntTimeout(DefaultTimeout) ELSE a.timeout

\* ------------------------------------------------------------ file system
\* every call takes the same name
FreshNames_Fixed(f) == {1}

\* a name is taken whether or not a file of that name exists
FreshNames_Any(f) == Names

\* the names NamedTemporaryFile may take: it opens with O_EXCL
FreshNames(f) == {n \in Names : f[n] = NoFile}

\* the file is left in place
Unlink_Keep(f, path) == f

\* os.unlink(path) that succeeds
Unlink(f, path) == [f EXCEPT ![path] = NoFile]

\* the failure of os.unlink replaces the value being returned
UnlinkFailed_Reported(r) ==
    <<TextContent(Text("Error executing AppleScript: ", <<>>, <<"OSError">>, AbsentTimeout))>>

\* lines 223-224: except: pass leaves the value being returned as it is
UnlinkFailed(r) == r

\* nothing has reached the file when the interpreter starts
Flushed_Buffered(data) == <<>>

\* line 199: temp.flush() puts the bytes written so far into the file
Flushed(data) == data

\* cmd[1]: the path handed to the interpreter
InterpreterPath(path) == path

\* the process is left running
KillProcess_Skip(p) == p

\* process.kill() of subprocess.run
KillProcess(p) == [p EXCEPT !.state = "killed"]

\* ------------------------------------------------------------------ Init
Init ==
    /\ pending = 0
    /\ fs = [n \in Names |-> NoFile]
    /\ pc = "idle"
    /\ name = ExecuteTool
    /\ arguments = NoArguments
    /\ timeout = AbsentTimeout
    /\ temp_path = NoPath
    /\ dirty = FALSE
    /\ unlinked = "none"
    /\ launch_error = NoError
    /\ proc = NoProc
    /\ elapsed = 0
    /\ ret = <<>>

\* the handler gives the event loop back while it waits for the interpreter
CanStart_Await == pc \in {"idle", "done", "wait"}

\* lines 180-229: the handler holds no await, and line 203 blocks the thread: the
\* event loop starts a call only when no call is in progress
CanStart == pc \in {"idle", "done"}

\* the call is made again after a timeout
AfterTimeout_Retry == "spawn"

\* lines 215-216, 219: the except clause returns, which leads to the finally block
AfterTimeout == "cleanup"

\* the caller issues a request
Issue ==
    /\ pending < MaxPending
    /\ pending' = pending + 1
    /\ UNCHANGED <<fs, pc, name, arguments, timeout, temp_path, dirty, unlinked, launch_error,
                   proc, elapsed, ret>>

\* lines 181-191, 225-229: the event loop starts the handler of an issued request;
\* validation failures return at once
Call ==
    /\ CanStart
    /\ pending > 0
    /\ pending' = pending - 1
    /\ \E n \in ToolNames, a \in Arguments :
        /\ name' = n
        /\ arguments' = a
        /\ IF ~IsExecute(n)
           THEN /\ ret' = ErrorResponse(<<"Unknown tool: ", n>>)
                /\ timeout' = AbsentTimeout
                /\ pc' = "done"
           ELSE IF MissingScript(a)
           THEN /\ ret' = ErrorResponse(<<"Missing code_snippet argument">>)
                /\ timeout' = AbsentTimeout
                /\ pc' = "done"
           ELSE /\ ret' = <<>>
                /\ timeout' = GetTimeout(a)
                /\ pc' = "stage"
    /\ temp_path' = NoPath
    /\ dirty' = FALSE
    /\ unlinked' = "none"
    /\ launch_error' = NoError
    /\ proc' = NoProc
    /\ elapsed' = 0
    /\ UNCHANGED fs

\* lines 194-195: NamedTemporaryFile(suffix='.scpt', delete=False)
Stage ==
    /\ pc = "stage"
    /\ \/ \E n \in FreshNames(fs) :
            /\ fs' = [fs EXCEPT ![n] = <<>>]
            /\ temp_path' = n
            /\ pc' = "write"
            /\ UNCHANGED ret
       \/ /\ ret' = ErrorResponse(<<"OSError">>)
          /\ pc' = "done"
          /\ UNCHANGED <<fs, temp_path>>
    /\ UNCHANGED <<pending, name, arguments, timeout, dirty, unlinked, launch_error, proc, elapsed>>

\* lines 198-199: temp.write(arguments["code_snippet"].encode('utf-8')); temp.flush()
Write ==
    /\ pc = "write"
    /\ LET data == EncodeUtf8(arguments.code_snippet)
       IN \/ /\ arguments.code_snippet = NoScript
             /\ ret' = ExecErrorResponse(<<"KeyError">>)
             /\ pc' = "cleanup"
             /\ UNCHANGED <<fs, dirty>>
          \/ /\ arguments.code_snippet # NoScript
             /\ data = <<-1>>
             /\ ret' = ExecErrorResponse(<<"UnicodeEncodeError">>)
             /\ pc' = "cleanup"
             /\ UNCHANGED <<fs, dirty>>
          \/ /\ arguments.code_snippet # NoScript
             /\ data # <<-1>>
             /\ fs' = [fs EXCEPT ![temp_path] = Flushed(data)]
             /\ pc' = "spawn"
             /\ UNCHANGED <<ret, dirty>>
          \/ /\ arguments.code_snippet # NoScript
             /\ data # <<-1>>
             /\ Len(data) > 0
             /\ \E k \in 0..(Len(data) - 1) :
                    fs' = [fs EXCEPT ![temp_path] = SubSeq(data, 1, k)]
             /\ dirty' = TRUE
             /\ ret' = ExecErrorResponse(<<"OSError">>)
             /\ pc' = "cleanup"
    /\ UNCHANGED <<pending, name, arguments, timeout, temp_path, unlinked, launch_error, proc, elapsed>>

\* lines 202-208: subprocess.run starts /usr/bin/osascript on the staged file
Spawn ==
    /\ pc = "spawn"
    /\ \/ /\ proc' = [NoProc EXCEPT !.state = "running", !.path = InterpreterPath(temp_path)]
          /\ elapsed' = 0
          /\ pc' = "wait"
          /\ UNCHANGED <<ret, launch_error>>
       \/ /\ \E e \in LaunchErrors :
                /\ launch_error' = e
                /\ ret' = ExecErrorResponse(<<e>>)
          /\ pc' = "cleanup"
          /\ UNCHANGED <<proc, elapsed>>
    /\ UNCHANGED <<pending, fs, name, arguments, timeout, temp_path, dirty, unlinked>>

\* the interpreter opens its argument and reads the script
ProcRead ==
    /\ proc.state = "running"
    /\ proc.input = NotRead
    /\ proc' = [proc EXCEPT !.input = fs[proc.path]]
    /\ UNCHANGED <<pending, fs, pc, name, arguments, timeout, temp_path, dirty, unlinked, launch_error,
                   elapsed, ret>>

\* a second passes while the process runs
Tick ==
    /\ pc = "wait"
    /\ proc.state = "running"
    /\ timeout.kind # "str"
    /\ IF timeout.kind = "int" THEN elapsed < timeout.val ELSE elapsed < MaxClock
    /\ elapsed' = elapsed + 1
    /\ UNCHANGED <<pending, fs, pc, name, arguments, timeout, temp_path, dirty, unlinked, launch_error,
                   proc, ret>>

\* the interpreter exits on its own, having written its two streams
ProcExit ==
    /\ pc = "wait"
    /\ proc.state = "running"
    /\ proc.input # NotRead
    /\ timeout.kind = "int" => elapsed < timeout.val
    /\ \E rc \in {0, 1}, out \in OutStreams, err \in OutStreams :
        /\ proc.input = NoFile => rc # 0
        /\ proc' = [proc EXCEPT !.state = "exited", !.returncode = rc,
                                !.stdout = out, !.stderr = err]
    /\ elapsed' = 0
    /\ UNCHANGED <<pending, fs, pc, name, arguments, timeout, temp_path, dirty, unlinked, launch_error,
                   ret>>

\* lines 203-214, 217-218: communicate() returns the streams of the exited process
RunReturns ==
    /\ pc = "wait"
    /\ proc.state = "exited"
    /\ timeout.kind # "str"
    /\ IF TextMode(proc.stdout) = <<-1>> \/ TextMode(proc.stderr) = <<-1>>
       THEN ret' = ExecErrorResponse(<<"UnicodeDecodeError">>)
       ELSE ret' = Classify([returncode |-> proc.returncode,
                             stdout |-> TextMode(proc.stdout),
                             stderr |-> TextMode(proc.stderr)])
    /\ pc' = "cleanup"
    /\ UNCHANGED <<pending, fs, name, arguments, timeout, temp_path, dirty, unlinked, launch_error,
                   proc, elapsed>>

\* lines 203-208, 215-216: the deadline passes, subprocess.run kills the process
TimeoutExpired ==
    /\ pc = "wait"
    /\ proc.state = "running"
    /\ timeout.kind = "int"
    /\ elapsed >= timeout.val
    /\ proc' = KillProcess(proc)
    /\ ret' = TimedOutResponse(timeout)
    /\ pc' = AfterTimeout
    /\ UNCHANGED <<pending, fs, name, arguments, timeout, temp_path, dirty, unlinked, launch_error,
                   elapsed>>

\* lines 203-208, 217-218: a timeout that is no number makes communicate() raise
\* TypeError; subprocess.run kills the process and re-raises
RunTypeError ==
    /\ pc = "wait"
    /\ timeout.kind = "str"
    /\ elapsed = 0
    /\ proc' = IF proc.state = "running" THEN KillProcess(proc) ELSE proc
    /\ ret' = ExecErrorResponse(<<"TypeError">>)
    /\ pc' = "cleanup"
    /\ UNCHANGED <<pending, fs, name, arguments, timeout, temp_path, dirty, unlinked, launch_error,
                   elapsed>>

\* lines 219-224: finally: os.unlink(temp_path), its failure swallowed
Cleanup ==
    /\ pc = "cleanup"
    /\ \/ /\ fs[temp_path] # NoFile
          /\ fs' = Unlink(fs, temp_path)
          /\ unlinked' = "ok"
          /\ UNCHANGED ret
       \/ /\ unlinked' = "failed"
          /\ ret' = UnlinkFailed(ret)
          /\ UNCHANGED fs
    /\ pc' = "close"
    /\ UNCHANGED <<pending, name, arguments, timeout, temp_path, dirty, launch_error, proc,
                   elapsed>>

\* line 194 (end of the with block) and lines 228-229: temp.close(); a buffer a
\* failed flush left behind is flushed again, and a second failure replaces the
\* result.  Closing a file whose buffer is empty is taken not to fail.
Close ==
    /\ pc = "close"
    /\ \/ /\ ~dirty
          /\ UNCHANGED <<fs, ret>>
       \/ /\ dirty
          /\ fs' = IF fs[temp_path] # NoFile
                   THEN [fs EXCEPT ![temp_path] = EncodeUtf8(arguments.code_snippet)]
                   ELSE fs
          /\ UNCHANGED ret
       \/ /\ dirty
          /\ ret' = ErrorResponse(<<"OSError">>)
          /\ UNCHANGED fs
    /\ dirty' = FALSE
    /\ pc' = "done"
    /\ UNCHANGED <<pending, name, arguments, timeout, temp_path, unlinked, launch_error, proc, elapsed>>

Next ==
    \/ Issue
    \/ Call
    \/ Stage
    \/ Write
    \/ Spawn
    \/ ProcRead
    \/ Tick
    \/ ProcExit
    \/ RunReturns
    \/ TimeoutExpired
    \/ RunTypeError
    \/ Cleanup
    \/ Close

Spec == Init /\ [][Next]_vars

\* ============================================================== the claims
\* the call in progress has returned ret to its caller
Returned == pc = "done"

\* the call has created its temporary file
Staged == temp_path # NoPath

\* the call has started an interpreter process
Spawned == proc.state # "none"

\* the text of the one block of a response
TextOf(r) == r[1].text

\* the result status a response text stands for
Status(r) ==
    LET t == TextOf(r)
    IN IF t.pfx = "" THEN "Ok"
       ELSE IF t.pfx = "AppleScript execution timed out after " THEN "TimedOut"
       ELSE IF t.pfx = "Error: " /\ t.msg[1] \in {"Missing code_snippet argument", "Unknown tool: "}
            THEN "InvalidRequest"
       ELSE "Failed"

\* the script argument is absent: no arguments, or arguments without the key
ScriptAbsent == ~arguments.present \/ arguments.code_snippet = NoScript

\* a request the specification calls valid: a non-empty script, a timeout that
\* is omitted or a positive integer
ValidRequest ==
    /\ name = ExecuteTool
    /\ ~ScriptAbsent
    /\ arguments.code_snippet # <<>>
    /\ \/ arguments.timeout.kind = "absent"
       \/ arguments.timeout.kind = "int" /\ arguments.timeout.val > 0

\* the timeout configured for the request: the value given, 60 when omitted
ConfiguredTimeout ==
    IF arguments.timeout.kind = "absent" THEN IntTimeout(60) ELSE arguments.timeout

\* s occurs in t as a contiguous run
Contains(t, s) ==
    \E i \in 0..(Len(t) - Len(s)) : SubSeq(t, i + 1, i + Len(s)) = s

\* C1 (as stated): when a call that staged a file returns, the file no longer exists.
C1_NoStagedFileAtReturn ==
    (Returned /\ Staged) => fs[temp_path] = NoFile

\* C1 (amended): a call that staged a file has called os.unlink on it before it
\* returns, on every exit path, and the file exists at the return only when that
\* os.unlink call failed.
C1_UnlinkedUnlessUnlinkFailed ==
    (Returned /\ Staged) =>
        /\ unlinked # "none"
        /\ fs[temp_path] # NoFile => unlinked = "failed"

\* C1 witness: a timed-out call has returned and its file is gone
C1_Witness ==
    /\ Returned /\ Staged
    /\ Status(ret) = "TimedOut"
    /\ unlinked = "ok"
    /\ fs[temp_path] = NoFile

\* C2: an execute call without the script argument returns the InvalidRequest
\* response "Missing code_snippet argument", and no file is staged and no process
\* spawned during the call.
C2_MissingScriptRejected ==
    (pc # "idle" /\ name = ExecuteTool /\ ScriptAbsent) =>
        /\ Returned
        /\ ret = ErrorResponse(<<"Missing code_snippet argument">>)
        /\ Status(ret) = "InvalidRequest"
        /\ ~Staged
        /\ ~Spawned

\* C2 witness: arguments that hold a timeout and no script were rejected
C2_Witness ==
    /\ Returned /\ name = ExecuteTool
    /\ arguments.present /\ arguments.code_snippet = NoScript
    /\ arguments.timeout = IntTimeout(1)
    /\ Status(ret) = "InvalidRequest"

\* C3 (as stated): an execute call whose script is the empty string returns
\* InvalidRequest and spawns no process.
C3_EmptyScriptRejected ==
    (pc # "idle" /\ name = ExecuteTool /\ arguments.present /\ arguments.code_snippet = <<>>) =>
        /\ ~Spawned
        /\ Returned => Status(ret) = "InvalidRequest"

\* C4: a response says TimedOut exactly when the deadline passed with the process
\* running; it states the timeout configured for the request, and the process has
\* been killed by the time the response exists.
C4_TimedOutKilled ==
    /\ (pc \in {"cleanup", "close", "done"} /\ proc.state = "killed" /\ timeout.kind = "int")
            => Status(ret) = "TimedOut"
    /\ (ret # <<>> /\ Status(ret) = "TimedOut") =>
            /\ proc.state = "killed"
            /\ TextOf(ret).tmo = ConfiguredTimeout
            /\ elapsed >= ConfiguredTimeout.val

\* C4 witness: a one-second timeout expired and the response was returned
C4_Witness ==
    /\ Returned
    /\ arguments.timeout = IntTimeout(1)
    /\ elapsed = 1
    /\ proc.state = "killed"
    /\ ret = TimedOutResponse(IntTimeout(1))

\* C5 (as stated): a valid request whose process exits with code 0 within the
\* timeout returns Ok with exactly the bytes the interpreter wrote to stdout.
C5_OkIsExactStdout ==
    (Returned /\ ValidRequest /\ proc.state = "exited" /\ proc.returncode = 0) =>
        /\ Status(ret) = "Ok"
        /\ TextOf(ret).body = proc.stdout

\* C6 (as stated): a valid request whose process exits non-zero within the timeout
\* returns Failed with the captured stderr in the text, never stdout as a success.
C6_FailedCarriesStderr ==
    (Returned /\ ValidRequest /\ proc.state = "exited" /\ proc.returncode # 0) =>
        /\ Status(ret) = "Failed"
        /\ Contains(TextOf(ret).body, TranslateNewlines(proc.stderr))

\* C7: a call of any other tool name returns the unknown-tool error as a normal
\* response, whatever its arguments, with no file staged and no process spawned.
C7_UnknownToolRejected ==
    (pc # "idle" /\ name # ExecuteTool) =>
        /\ Returned
        /\ ret = <<TextContent(Text("Error: ", <<>>, <<"Unknown tool: ", name>>, AbsentTimeout))>>
        /\ Status(ret) = "InvalidRequest"
        /\ ~Staged
        /\ ~Spawned

\* C7 witness: another tool was called with a well-formed script and was rejected
C7_Witness ==
    /\ Returned /\ name = "other_tool"
    /\ arguments.present /\ arguments.code_snippet = <<97>>
    /\ arguments.timeout = IntTimeout(1)

\* C8: a call that has returned has returned a value, and every value a call
\* returns or is about to return is a list of exactly one text block, whatever
\* the outcome: no exception takes the place of a response.
C8_OneTextBlock ==
    /\ Returned => ret # <<>>
    /\ ret # <<>> => (Len(ret) = 1 /\ ret[1].type = "text")

\* C8 witness: the flush failed, then closing the file failed too, and the call
\* still returned one text block
C8_Witness ==
    /\ Returned /\ Staged
    /\ ret = <<TextContent(Text("Error: ", <<>>, <<"OSError">>, AbsentTimeout))>>

\* the file operations of a step touch only the file of the call in progress,
\* and a call takes for its file a name under which no file exists
OwnFileOnly ==
    \A n \in Names :
        fs'[n] # fs[n] =>
            /\ n = temp_path'
            /\ temp_path = NoPath => fs[n] = NoFile

\* the interpreter of a call runs on that call's file and reads that call's
\* script, and the response comes from that interpreter's streams
OwnScriptRun ==
    /\ Spawned => (Staged /\ proc.path = temp_path)
    /\ proc.input # NotRead => proc.input = EncodeUtf8(arguments.code_snippet)
    /\ (Returned /\ Status(ret) = "Ok") =>
            (proc.state = "exited" /\ TextOf(ret).body = TextMode(proc.stdout))

\* C9: with other requests issued and other calls' files about, every call runs
\* the interpreter on its own script and answers from that run, and never
\* creates, overwrites or deletes a file that is not its own.
C9_NoCrossTalk == [](OwnScriptRun) /\ [][OwnFileOnly]_vars

\* C9 witness: a call answered from its own script while another request is
\* issued and an earlier call's file with another script is still there
C9_Witness ==
    /\ Returned /\ Status(ret) = "Ok"
    /\ pending > 0
    /\ proc.input = EncodeUtf8(arguments.code_snippet)
    /\ \E n \in Names : n # temp_path /\ fs[n] # NoFile
                        /\ fs[n] # EncodeUtf8(arguments.code_snippet)

\* C10 (as stated): whenever the handler waits on a running process, the wait has
\* a bound: the timeout given, or 60 seconds when none is given.
C10_WaitBounded ==
    (pc = "wait" /\ proc.state = "running" /\ timeout.kind # "str") =>
        /\ timeout.kind = "int"
        /\ timeout = ConfiguredTimeout
        /\ elapsed <= timeout.val \/ elapsed = 0

\* the timeout argument is given and is not a positive integer
BadTimeout ==
    /\ arguments.timeout.kind # "absent"
    /\ ~(arguments.timeout.kind = "int" /\ arguments.timeout.val > 0)

\* C11 (as stated): an execute call whose timeout is given but is zero, negative
\* or no integer returns InvalidRequest, with no file staged and no process spawned.
C11_BadTimeoutRejected ==
    (pc # "idle" /\ name = ExecuteTool /\ ~ScriptAbsent /\ arguments.code_snippet # <<>>
        /\ BadTimeout) =>
        /\ ~Staged
        /\ ~Spawned
        /\ Returned => Status(ret) = "InvalidRequest"

\* the responses a call may give, told from its own name and arguments and from
\* what the file system and the interpreter did during this call alone
OwnResponses ==
    IF name # ExecuteTool
    THEN {<<TextContent(Text("Error: ", <<>>, <<"Unknown tool: ", name>>, AbsentTimeout))>>}
    ELSE IF ScriptAbsent
    THEN {<<TextContent(Text("Error: ", <<>>, <<"Missing code_snippet argument">>, AbsentTimeout))>>}
    ELSE IF ~Staged
    THEN {ErrorResponse(<<"OSError">>)}
    ELSE IF launch_error # NoError
    THEN {ExecErrorResponse(<<launch_error>>)}
    ELSE IF proc.state = "none"
    THEN IF EncodeUtf8(arguments.code_snippet) = <<-1>>
         THEN {ExecErrorResponse(<<"UnicodeEncodeError">>)}
         ELSE {ExecErrorResponse(<<"OSError">>), ErrorResponse(<<"OSError">>)}
    ELSE IF arguments.timeout.kind = "str"
    THEN {ExecErrorResponse(<<"TypeError">>)}
    ELSE IF proc.state = "killed"
    THEN {TimedOutResponse(ConfiguredTimeout)}
    ELSE IF TextMode(proc.stdout) = <<-1>> \/ TextMode(proc.stderr) = <<-1>>
    THEN {ExecErrorResponse(<<"UnicodeDecodeError">>)}
    ELSE IF proc.returncode # 0
    THEN {<<TextContent(Text("AppleScript execution failed: ", TextMode(proc.stderr), <<>>,
                             AbsentTimeout))>>}
    ELSE {<<TextContent(Text("", TextMode(proc.stdout), <<>>, AbsentTimeout))>>}

\* C12: whatever calls came before, the response of a call is one its own name,
\* arguments and interpreter run account for, and once a call has returned (failed,
\* timed out, rejected or not) the next issued request can be started.
C12_HistoryIndependent ==
    Returned =>
        /\ ret \in OwnResponses
        /\ pending > 0 => ENABLED Call

\* C12 witness: a request without a timeout ran into the default timeout after an
\* earlier call had failed to delete its file, with the next request issued
C12_Witness ==
    /\ Returned
    /\ arguments.timeout = AbsentTimeout
    /\ Status(ret) = "TimedOut"
    /\ pending > 0
    /\ \E n \in Names : n # temp_path /\ fs[n] # NoFile

\* the finally block leaves the value being returned as it found it
CleanupKeepsResult == pc = "cleanup" => (ret' = ret /\ pc' \in {"cleanup", "close"})

\* C13: a failing os.unlink changes nothing of the response: the finally block
\* hands on the value being returned unchanged, and a call whose deletion failed
\* returns a text block that its arguments and its interpreter run account for,
\* the same as had the deletion succeeded.
C13_UnlinkFailureSwallowed ==
    /\ [][CleanupKeepsResult]_vars
    /\ []((Returned /\ unlinked = "failed") =>
            (Len(ret) = 1 /\ ret[1].type = "text" /\ ret \in OwnResponses))

\* C13 witness: the deletion failed, the file is still there, and the call
\* returned the interpreter's output as its Ok result
C13_Witness ==
    /\ Returned
    /\ unlinked = "failed"
    /\ fs[temp_path] # NoFile
    /\ proc.state = "exited" /\ proc.returncode = 0
    /\ Status(ret) = "Ok"

\* a step creates a file only as the staging of a call that has staged none, and
\* starts a process only for a call that has started none; a call that holds its
\* result goes on to the cleanup and the return, never back
NoRetryStep ==
    /\ (\E n \in Names : fs[n] = NoFile /\ fs'[n] # NoFile) =>
            (pc = "stage" /\ temp_path = NoPath /\ proc.state = "none")
    /\ (proc'.state = "running" /\ proc.state # "running") =>
            (pc = "spawn" /\ proc.state = "none" /\ launch_error = NoError)
    /\ (pc \notin {"idle", "done"} /\ ret # <<>>) =>
            pc' \in {"cleanup", "close", "done"}

\* C14: over the handling of one request at most one file is staged and the
\* interpreter is started at most once, and a failure (non-zero exit, timeout,
\* launch error) is the result of the request: nothing is tried again.
C14_NoRetry == [][NoRetryStep]_vars

\* C14 witness: the interpreter exited non-zero and the call returned Failed
C14_Witness ==
    /\ Returned
    /\ proc.state = "exited" /\ proc.returncode = 1
    /\ ret = <<TextContent(Text("AppleScript execution failed: ", <<97>>, <<>>, AbsentTimeout))>>

\* the response to a failed launch: Failed, with the message of the error that
\* subprocess.run raised, neither a timeout nor a success, and no process
LaunchErrorSurfaced ==
    /\ Status(ret) = "Failed"
    /\ TextOf(ret).pfx = "Error executing AppleScript: "
    /\ TextOf(ret).msg = <<launch_error>>
    /\ ~Spawned

\* C15 (as stated): when the interpreter cannot be launched the call returns
\* Failed with the error's message, and the staged file has been deleted by then.
C15_LaunchErrorFileDeleted ==
    (Returned /\ launch_error # NoError) =>
        /\ LaunchErrorSurfaced
        /\ fs[temp_path] = NoFile

\* C15 (amended): when the interpreter cannot be launched the call returns Failed
\* with the error's message, not a timeout and not a success; os.unlink has been
\* called on the staged file by then, and the file is gone unless that call failed.
C15_LaunchErrorUnlinked ==
    (Returned /\ launch_error # NoError) =>
        /\ LaunchErrorSurfaced
        /\ Staged
        /\ unlinked # "none"
        /\ fs[temp_path] # NoFile => unlinked = "failed"

\* C15 witness: the interpreter binary was missing; the call returned the error
\* and its file is gone
C15_Witness ==
    /\ Returned
    /\ launch_error = "FileNotFoundError"
    /\ ret = ExecErrorResponse(<<"FileNotFoundError">>)
    /\ unlinked = "ok"
    /\ fs[temp_path] = NoFile

\* a call that takes a path takes the name of no file that exists at that moment,
\* creates the file empty, and leaves every other file as it is
StagesFreshFile ==
    (temp_path' # temp_path /\ temp_path' # NoPath) =>
        /\ pc = "stage"
        /\ temp_path = NoPath
        /\ fs[temp_path'] = NoFile
        /\ fs'[temp_path'] = <<>>
        /\ \A n \in Names \ {temp_path'} : fs'[n] = fs[n]

\* a file that exists and is not the file of the call in progress belongs to an
\* earlier call: the call in progress neither writes nor removes it
OthersFilesKept ==
    \A n \in Names : (fs[n] # NoFile /\ n # temp_path) => fs'[n] = fs[n]

\* C16: every call stages its script into a file it creates under a name that no
\* existing file has, so two calls with the same request have two files and no
\* file belongs to two calls.
C16_FreshArtifact == [][StagesFreshFile /\ OthersFilesKept]_vars

\* C16 witness: the file an earlier call with the same script left behind exists
\* next to the file of the call in progress, both holding the script
C16_Witness ==
    /\ pc = "spawn"
    /\ arguments.code_snippet = <<97, 233>>
    /\ \E n \in Names :
        /\ n # temp_path
        /\ fs[n] = EncodeUtf8(arguments.code_snippet)
        /\ fs[temp_path] = fs[n]

\* the position of a step in the handler: lines 194, 198, 203, 203-208, 222, 194
\* (end of the with block), return
StepRank(p) ==
    CASE p = "idle" -> 0
      [] p = "stage" -> 1
      [] p = "write" -> 2
      [] p = "spawn" -> 3
      [] p = "wait" -> 4
      [] p = "cleanup" -> 5
      [] p = "close" -> 6
      [] p = "done" -> 7

\* what holds of a call at every moment: its process runs only between the spawn
\* and the unlink, on a file that holds the whole script
StepsInOrderState ==
    /\ Spawned => Staged
    /\ proc.state = "running" =>
            /\ pc = "wait"
            /\ proc.path = temp_path
            /\ fs[temp_path] = EncodeUtf8(arguments.code_snippet)
            /\ unlinked = "none"
            /\ ret = <<>>
    /\ unlinked # "none" => (Staged /\ proc.state \in {"none", "exited", "killed"})
    /\ (Returned /\ Staged) => unlinked # "none"

\* what holds of every step: a call only moves forward, and a file is removed only
\* by the unlink of the call it belongs to, after its process is gone
StepsInOrderStep ==
    /\ (pc' # pc /\ pc \notin {"idle", "done"}) => StepRank(pc') > StepRank(pc)
    /\ \A n \in Names : (fs[n] # NoFile /\ fs'[n] = NoFile) =>
            /\ pc = "cleanup"
            /\ n = temp_path
            /\ proc.state \in {"none", "exited", "killed"}

\* C17: within one call the steps come in the order stage, spawn, exit or kill of
\* the process, os.unlink, return; while the process runs the file exists and holds
\* the whole script, and it is removed only after the process exited or was killed.
C17_StepsInOrder == [](StepsInOrderState) /\ [][StepsInOrderStep]_vars

\* C17 witness: the interpreter has read the whole script from the file and is
\* still running after a second
C17_Witness ==
    /\ proc.state = "running"
    /\ elapsed > 0
    /\ arguments.code_snippet = <<97, 233>>
    /\ proc.input = EncodeUtf8(arguments.code_snippet)
    /\ fs[temp_path] = proc.input

\* the files that exist
StagedFiles == {n \in Names : fs[n] # NoFile}

\* C18 (as stated): calls never overlap, so in every state at most one staged file
\* exists, a process runs only inside the one call in progress, and no call is in
\* progress between calls while a file is left.
C18_AtMostOneArtifact ==
    /\ Cardinality(StagedFiles) <= 1
    /\ proc.state = "running" => pc = "wait"
    /\ pc \in {"idle", "done"} => StagedFiles = {}

\* a request is started only when no call is in progress: the earlier call has
\* produced its response, its process is gone, and it has called os.unlink on its
\* file, which is gone unless that call failed
StartsAfterEarlier ==
    pending' < pending =>
        /\ pc \in {"idle", "done"}
        /\ pc = "done" => ret # <<>>
        /\ proc.state # "running"
        /\ Staged => unlinked # "none"
        /\ (Staged /\ fs[temp_path] # NoFile) => unlinked = "failed"

\* a process is started only when the call has none, and a file is added only by
\* the staging step of the call in progress, one at a time
OneAtATime ==
    /\ (proc'.state = "running" /\ proc.state # "running") =>
            (pc = "spawn" /\ proc.state = "none")
    /\ StagedFiles' # StagedFiles =>
            \/ pc = "stage" /\ StagedFiles' = StagedFiles \cup {temp_path'}
            \/ pc = "cleanup" /\ StagedFiles' = StagedFiles \ {temp_path}

\* C18 (amended): calls never overlap: at most one process is running, and a
\* request that arrives during a call is started only after that call has called
\* os.unlink on its file and produced its response; the file of the call in
\* progress is the only one that exists, apart from files whose os.unlink failed.
C18_Serialized ==
    /\ [][StartsAfterEarlier /\ OneAtATime]_vars
    /\ [](proc.state = "running" => pc = "wait")
    /\ []((pc = "done" /\ Staged /\ temp_path \in StagedFiles) => unlinked = "failed")

\* C18 witness: a request arrives while the process of the call in progress runs,
\* and is started only after that call returned
C18_Witness ==
    /\ pending > 0
    /\ pc = "wait"
    /\ proc.state = "running"
    /\ elapsed > 0
    /\ ~ENABLED Call
    /\ \E n \in Names : n # temp_path /\ fs[n] # NoFile

====
